---- MODULE Spec2Model ----
(***************************************************************************)
(* The YouTubeExplorer page component of yt-explorer, in its two variants  *)
(* (src/app/page.tsx and src/unnamed/part_000): library readiness polling, *)
(* authorization, the search handler with its responses, the pagination    *)
(* buttons and the result link formatter.                                  *)
(*                                                                         *)
(* One step of the model is one run of a handler or callback up to its     *)
(* next await; the state updates a handler makes in one run are committed  *)
(* together, as the framework batches them.                                *)
(***************************************************************************)
EXTENDS Integers, Sequences, FiniteSets, TLC

VARIABLES
    variant,              \* which of the two source files is running
    mounted,              \* the view exists (the effect's cleanup has not run)
    gapiDefined,          \* typeof gapi !== 'undefined'
    googleDefined,        \* typeof google !== 'undefined' && google.accounts
    gapiInitStarted,      \* local of the polling effect
    gisInitStarted,       \* local of the polling effect
    interval,             \* the setInterval timer: "active" or "cleared"
    gapiLoadCalls,        \* how often gapi.load was called
    initTokenClientCalls, \* how often initTokenClient was called
    gapiClient,           \* the API client: none, loading, initing, ready, failed
    isGapiReady,
    tokenClient,
    accessToken,
    authPending,          \* requestAccessToken calls whose callback is outstanding
    results,
    loading,
    nextPageToken,
    prevPageToken,
    params,
    inflight,             \* search.list calls whose response is outstanding
    cursorQuery,          \* the query of the search whose response is shown
    last,                 \* the most recent step: its handler, alert and log
    item,                 \* a result item handed to getUrl
    href                  \* the link rendered for item

libVars    == <<gapiDefined, googleDefined, gapiInitStarted, gisInitStarted, interval,
                gapiLoadCalls, initTokenClientCalls, gapiClient, isGapiReady, tokenClient>>
authVars   == <<accessToken, authPending>>
searchVars == <<results, loading, nextPageToken, prevPageToken, inflight, cursorQuery>>
urlVars    == <<item, href>>
vars == <<variant, mounted, libVars, authVars, searchVars, params, last, urlVars>>

----------------------------------------------------------------------------
(* Values of the host language *)

NULL      == "<null>"
UNDEFINED == "<undefined>"

\* JavaScript truthiness of a string | null | undefined
Truthy(x) == x # NULL /\ x # UNDEFINED /\ x # ""

\* x || null
OrNull(x) == IF Truthy(x) THEN x ELSE NULL

RECURSIVE Reverse(_)
Reverse(s) == IF s = <<>> THEN <<>> ELSE Append(Reverse(Tail(s)), Head(s))

RemoveAt(s, i) == SubSeq(s, 1, i - 1) \o SubSeq(s, i + 1, Len(s))

----------------------------------------------------------------------------
(* Bounds of the model *)

MaxCalls       == 2   \* the call counters of the polling effect saturate here
MaxAuthPending == 1   \* authorization prompts open at once
MaxInflight    == 2   \* search calls outstanding at once

Variants == {"page", "part_000"}

\* access_token values the identity callback may deliver
AccessTokens == {UNDEFINED, "", "tokA", "tokB"}

\* text typed into the search box
Terms == {"cats", "dogs"}

\* page cursors a response may carry
NextTokens == {UNDEFINED, "N1"}
PrevTokens == {UNDEFINED, "P1"}

----------------------------------------------------------------------------
(* The last step *)

NoAlert   == "none"
AuthAlert == "Google Auth library not ready yet."
TokenAlert == "Please authorize first!"

\* arg is what the handler was given: a page token, an access_token
Step(op, alert, logged) == [op |-> op, alert |-> alert, logged |-> logged, arg |-> NULL]
StepArg(op, alert, logged, arg) == [op |-> op, alert |-> alert, logged |-> logged, arg |-> arg]

----------------------------------------------------------------------------
(* Time values and Date.prototype.toISOString.                             *)
(* A time value t (milliseconds since the epoch) is held as                *)
(* [day |-> Day(t), ms |-> TimeWithinDay(t)], so that present-day clock    *)
(* values stay within the integers of the checker.                         *)

MsPerDay == 24 * 60 * 60 * 1000
WeekMs   == 7 * 24 * 60 * 60 * 1000
DayMs    == 24 * 60 * 60 * 1000

\* t - delta, for a time value t and a number of milliseconds delta
TimeMinus(t, delta) ==
    LET raw == t.ms - delta
    IN  [day |-> t.day + (raw \div MsPerDay), ms |-> raw % MsPerDay]

DaysInYear(y) ==
    IF y % 4 # 0 THEN 365
    ELSE IF y % 100 # 0 THEN 366
    ELSE IF y % 400 # 0 THEN 365
    ELSE 366

DayFromYear(y) ==
    365 * (y - 1970) + ((y - 1969) \div 4) - ((y - 1901) \div 100) + ((y - 1601) \div 400)

YearFromDay(d) ==
    CHOOSE y \in (1969 + (d \div 366))..(1971 + (d \div 365)) :
        DayFromYear(y) <= d /\ d < DayFromYear(y + 1)

InLeapYear(d) == IF DaysInYear(YearFromDay(d)) = 366 THEN 1 ELSE 0

DayWithinYear(d) == d - DayFromYear(YearFromDay(d))

\* 0 = January ... 11 = December
MonthFromDay(d) ==
    LET w == DayWithinYear(d)
        l == InLeapYear(d)
    IN  IF w < 31 THEN 0
        ELSE IF w < 59 + l THEN 1
        ELSE IF w < 90 + l THEN 2
        ELSE IF w < 120 + l THEN 3
        ELSE IF w < 151 + l THEN 4
        ELSE IF w < 181 + l THEN 5
        ELSE IF w < 212 + l THEN 6
        ELSE IF w < 243 + l THEN 7
        ELSE IF w < 273 + l THEN 8
        ELSE IF w < 304 + l THEN 9
        ELSE IF w < 334 + l THEN 10
        ELSE 11

DateFromDay(d) ==
    LET w == DayWithinYear(d)
        l == InLeapYear(d)
        m == MonthFromDay(d)
    IN  IF m = 0 THEN w + 1
        ELSE IF m = 1 THEN w - 30
        ELSE IF m = 2 THEN w - 58 - l
        ELSE IF m = 3 THEN w - 89 - l
        ELSE IF m = 4 THEN w - 119 - l
        ELSE IF m = 5 THEN w - 150 - l
        ELSE IF m = 6 THEN w - 180 - l
        ELSE IF m = 7 THEN w - 211 - l
        ELSE IF m = 8 THEN w - 242 - l
        ELSE IF m = 9 THEN w - 272 - l
        ELSE IF m = 10 THEN w - 303 - l
        ELSE w - 333 - l

Pad2(n) == IF n < 10 THEN "0" \o ToString(n) ELSE ToString(n)
Pad3(n) == IF n < 10 THEN "00" \o ToString(n)
           ELSE IF n < 100 THEN "0" \o ToString(n) ELSE ToString(n)
Pad4(n) == IF n < 1000 THEN "0" \o Pad3(n) ELSE ToString(n)

\* YYYY-MM-DDTHH:mm:ss.sssZ from the parts of a date (month 1..12)
IsoText(y, mo, d, h, mi, s, ms) ==
    Pad4(y) \o "-" \o Pad2(mo) \o "-" \o Pad2(d) \o "T"
        \o Pad2(h) \o ":" \o Pad2(mi) \o ":" \o Pad2(s) \o "." \o Pad3(ms) \o "Z"

toISOString(t) ==
    IsoText(YearFromDay(t.day), MonthFromDay(t.day) + 1, DateFromDay(t.day),
            t.ms \div 3600000, (t.ms \div 60000) % 60, (t.ms \div 1000) % 60, t.ms % 1000)

\* values of Date.now()
Clock == { [day |-> 19783, ms |-> 0],           \* 2024-03-01T00:00:00.000Z
           [day |-> 20456, ms |-> 86399999],    \* 2026-01-03T23:59:59.999Z
           [day |-> 20759, ms |-> 22028009] }   \* 2026-11-02T06:07:08.009Z

----------------------------------------------------------------------------
(* Form state and the search request *)

BaseParams ==
    [q |-> "", maxResults |-> 50, order |-> "relevance", type |-> "video",
     videoDuration |-> "any", videoDefinition |-> "any", regionCode |-> "US"]

\* useState<SearchParams>({...})
InitialParams(v) ==
    IF v = "page" THEN [publishedAfter |-> "any"] @@ BaseParams ELSE BaseParams

\* the select fields of the form, each with the options the model explores
selectFields(v) ==
    IF v = "page"
    THEN [order |-> {"relevance", "date"}, publishedAfter |-> {"any", "week", "day"}]
    ELSE [order |-> {"relevance", "date"}]

\* the two periods exchanged
publishedAfterDate_swapped(now) ==
    IF params.publishedAfter = "week" THEN toISOString(TimeMinus(now, DayMs))
    ELSE IF params.publishedAfter = "day" THEN toISOString(TimeMinus(now, WeekMs))
    ELSE IF params.publishedAfter = "any" THEN "1970-01-01T00:00:00Z"
    ELSE UNDEFINED

\* the let publishedAfterDate of page.tsx's handleSearch
publishedAfterDate(now) ==
    IF params.publishedAfter = "week" THEN toISOString(TimeMinus(now, WeekMs))
    ELSE IF params.publishedAfter = "day" THEN toISOString(TimeMinus(now, DayMs))
    ELSE IF params.publishedAfter = "any" THEN "1970-01-01T00:00:00Z"
    ELSE UNDEFINED

\* the argument of gapi.client.youtube.search.list: in an object literal a later
\* key overrides an earlier one
SearchRequest(pageToken, now) ==
    IF variant = "page"
    THEN [publishedAfter |-> publishedAfterDate(now)] @@ params
             @@ [part |-> <<"snippet">>, pageToken |-> pageToken]
    ELSE params @@ [part |-> <<"snippet">>, pageToken |-> pageToken]

\* the query of a request: term, limit, order, type, duration, resolution, region
QueryFields ==
    {"q", "maxResults", "order", "type", "videoDuration", "videoDefinition", "regionCode"}

QueryOf(request) == [k \in QueryFields |-> request[k]]

\* no search has returned yet
NoQuery == [k \in QueryFields |-> UNDEFINED]

\* result items, by their id
Item(v, p, c) == [id |-> [videoId |-> v, playlistId |-> p, channelId |-> c]]
ItemA == Item("v1", UNDEFINED, UNDEFINED)
ItemB == Item(UNDEFINED, UNDEFINED, "c1")

ResponseItems == {<<>>, <<ItemA, ItemB>>}

Responses ==
    [items : ResponseItems, nextPageToken : NextTokens, prevPageToken : PrevTokens]

\* what setResults is given
storeItems(items) == IF variant = "page" THEN items ELSE Reverse(items)

----------------------------------------------------------------------------
(* getUrl *)

\* the channel looked at before the playlist
getUrl_channelFirst(it) ==
    LET videoId    == it.id.videoId
        playlistId == it.id.playlistId
        channelId  == it.id.channelId
    IN  IF Truthy(videoId) THEN "https://www.youtube.com/watch?v=" \o videoId
        ELSE IF Truthy(channelId) THEN "https://www.youtube.com/channel/" \o channelId
        ELSE IF Truthy(playlistId) THEN "https://www.youtube.com/playlist?list=" \o playlistId
        ELSE "#"

getUrl(it) ==
    LET videoId    == it.id.videoId
        playlistId == it.id.playlistId
        channelId  == it.id.channelId
    IN  IF Truthy(videoId) THEN "https://www.youtube.com/watch?v=" \o videoId
        ELSE IF Truthy(playlistId) THEN "https://www.youtube.com/playlist?list=" \o playlistId
        ELSE IF Truthy(channelId) THEN "https://www.youtube.com/channel/" \o channelId
        ELSE "#"

\* ids a result item may carry in each of its three places
Ids == {UNDEFINED, "", "abc", "xyz"}
UrlItems == {Item(v, p, c) : v \in Ids, p \in Ids, c \in Ids}
Unrendered == "<unrendered>"

\* the card of one result item: href={getUrl(item)}
RenderItem ==
    /\ href = Unrendered
    /\ href' = getUrl(item)
    /\ UNCHANGED <<variant, mounted, libVars, authVars, searchVars, params, last, item>>

----------------------------------------------------------------------------
(* The state after the first render *)

InitPage ==
    /\ variant \in Variants
    /\ mounted = TRUE
    /\ gapiDefined = FALSE
    /\ googleDefined = FALSE
    /\ gapiInitStarted = FALSE
    /\ gisInitStarted = FALSE
    /\ interval = "active"
    /\ gapiLoadCalls = 0
    /\ initTokenClientCalls = 0
    /\ gapiClient = "none"
    /\ isGapiReady = FALSE
    /\ tokenClient = NULL
    /\ accessToken = NULL
    /\ authPending = 0
    /\ results = <<>>
    /\ loading = FALSE
    /\ nextPageToken = NULL
    /\ prevPageToken = NULL
    /\ params = InitialParams(variant)
    /\ inflight = <<>>
    /\ cursorQuery = NoQuery
    /\ last = Step("mount", NoAlert, FALSE)
    /\ href = Unrendered

Init == InitPage /\ item = ItemA

----------------------------------------------------------------------------
(* The two external scripts *)

\* <Script src="https://apis.google.com/js/api.js"> has run
GapiScriptLoad ==
    /\ mounted /\ ~gapiDefined
    /\ gapiDefined' = TRUE
    /\ last' = Step("gapiScript", NoAlert, FALSE)
    /\ UNCHANGED <<variant, mounted, googleDefined, gapiInitStarted, gisInitStarted, interval,
                   gapiLoadCalls, initTokenClientCalls, gapiClient, isGapiReady, tokenClient,
                   authVars, searchVars, params, urlVars>>

\* <Script src="https://accounts.google.com/gsi/client"> has run
GoogleScriptLoad ==
    /\ mounted /\ ~googleDefined
    /\ googleDefined' = TRUE
    /\ last' = Step("gsiScript", NoAlert, FALSE)
    /\ UNCHANGED <<variant, mounted, gapiDefined, gapiInitStarted, gisInitStarted, interval,
                   gapiLoadCalls, initTokenClientCalls, gapiClient, isGapiReady, tokenClient,
                   authVars, searchVars, params, urlVars>>

----------------------------------------------------------------------------
(* The polling effect *)

\* typeof gapi !== 'undefined' && !gapiInitStarted
NeedGapiInit == gapiDefined /\ ~gapiInitStarted

\* typeof google !== 'undefined' && google.accounts && !gisInitStarted
NeedGisInit == googleDefined /\ ~gisInitStarted

\* the timer never cancelled by its own callback
ShouldClear_never(g, s) == FALSE

\* if (gapiInitStarted && gisInitStarted) clearInterval(interval)
ShouldClear(g, s) == g /\ s

\* the cleanup of the effect: return () => clearInterval(interval)
CleanupInterval == "cleared"

Bump(n) == IF n < MaxCalls THEN n + 1 ELSE n

\* one run of the setInterval callback
Tick ==
    /\ interval = "active"
    /\ gapiInitStarted' = (gapiInitStarted \/ NeedGapiInit)
    /\ gapiLoadCalls' = IF NeedGapiInit THEN Bump(gapiLoadCalls) ELSE gapiLoadCalls
    /\ gapiClient' = IF NeedGapiInit THEN "loading" ELSE gapiClient
    /\ gisInitStarted' = (gisInitStarted \/ NeedGisInit)
    /\ initTokenClientCalls' =
           IF NeedGisInit THEN Bump(initTokenClientCalls) ELSE initTokenClientCalls
    /\ tokenClient' = IF NeedGisInit /\ mounted THEN "client" ELSE tokenClient
    /\ interval' = IF ShouldClear(gapiInitStarted', gisInitStarted') THEN "cleared" ELSE interval
    /\ last' = Step("tick", NoAlert, FALSE)
    /\ UNCHANGED <<variant, mounted, gapiDefined, googleDefined, isGapiReady,
                   authVars, searchVars, params, urlVars>>

\* the view is torn down: the effect's cleanup runs
Unmount ==
    /\ mounted
    /\ mounted' = FALSE
    /\ interval' = CleanupInterval
    /\ last' = Step("unmount", NoAlert, FALSE)
    /\ UNCHANGED <<variant, gapiDefined, googleDefined, gapiInitStarted, gisInitStarted,
                   gapiLoadCalls, initTokenClientCalls, gapiClient, isGapiReady, tokenClient,
                   authVars, searchVars, params, urlVars>>

\* the callback of gapi.load('client', ...) starts: it calls gapi.client.init
GapiLoadCallback ==
    /\ mounted /\ gapiClient = "loading"
    /\ gapiClient' = "initing"
    /\ last' = Step("gapiLoaded", NoAlert, FALSE)
    /\ UNCHANGED <<variant, mounted, gapiDefined, googleDefined, gapiInitStarted,
                   gisInitStarted, interval, gapiLoadCalls, initTokenClientCalls,
                   isGapiReady, tokenClient, authVars, searchVars, params, urlVars>>

\* await gapi.client.init(...) returns: setIsGapiReady(true)
GapiInitResolve ==
    /\ mounted /\ gapiClient = "initing"
    /\ gapiClient' = "ready"
    /\ isGapiReady' = TRUE
    /\ last' = Step("gapiReady", NoAlert, FALSE)
    /\ UNCHANGED <<variant, mounted, gapiDefined, googleDefined, gapiInitStarted,
                   gisInitStarted, interval, gapiLoadCalls, initTokenClientCalls,
                   tokenClient, authVars, searchVars, params, urlVars>>

\* await gapi.client.init(...) throws: the callback ends there
GapiInitReject ==
    /\ mounted /\ gapiClient = "initing"
    /\ gapiClient' = "failed"
    /\ last' = Step("gapiFailed", NoAlert, FALSE)
    /\ UNCHANGED <<variant, mounted, gapiDefined, googleDefined, gapiInitStarted,
                   gisInitStarted, interval, gapiLoadCalls, initTokenClientCalls,
                   isGapiReady, tokenClient, authVars, searchVars, params, urlVars>>

----------------------------------------------------------------------------
(* Authorization *)

\* the Connect button's onClick
handleAuth ==
    /\ mounted
    /\ IF ~Truthy(tokenClient)
       THEN /\ last' = Step("handleAuth", AuthAlert, FALSE)
            /\ UNCHANGED authPending
       ELSE /\ authPending < MaxAuthPending
            /\ authPending' = authPending + 1
            /\ last' = Step("handleAuth", NoAlert, FALSE)
    /\ UNCHANGED <<variant, mounted, libVars, accessToken, searchVars, params, urlVars>>

\* the token stored whatever the response holds
TokenDelivered_unchecked(access_token) == access_token

\* if (tokenResponse.access_token) setAccessToken(tokenResponse.access_token)
TokenDelivered(access_token) ==
    IF Truthy(access_token) THEN access_token ELSE accessToken

\* the callback given to initTokenClient runs with a token response
TokenCallback(access_token) ==
    /\ mounted /\ authPending > 0
    /\ authPending' = authPending - 1
    /\ accessToken' = TokenDelivered(access_token)
    /\ last' = StepArg("tokenCallback", NoAlert, FALSE, access_token)
    /\ UNCHANGED <<variant, mounted, libVars, searchVars, params, urlVars>>


\* the prompt is closed without a token response: the callback never runs
AuthDismissed ==
    /\ mounted /\ authPending > 0
    /\ authPending' = authPending - 1
    /\ last' = Step("authDismissed", NoAlert, FALSE)
    /\ UNCHANGED <<variant, mounted, libVars, accessToken, searchVars, params, urlVars>>

----------------------------------------------------------------------------
(* The form *)

\* onChange of the search box: setParams({ ...params, q: e.target.value })
SetQ(v) ==
    /\ mounted
    /\ params' = [params EXCEPT !.q = v]
    /\ last' = Step("setParams", NoAlert, FALSE)
    /\ UNCHANGED <<variant, mounted, libVars, authVars, searchVars, urlVars>>

\* onChange of a select: setParams({ ...params, [field.key]: e.target.value })
SetSelect(key, v) ==
    /\ mounted
    /\ params' = [params EXCEPT ![key] = v]
    /\ last' = Step("setParams", NoAlert, FALSE)
    /\ UNCHANGED <<variant, mounted, libVars, authVars, searchVars, urlVars>>

\* the submit button not disabled while a search runs
SubmitDisabled_noLoading == ~Truthy(accessToken)

\* disabled={loading || !accessToken} of the submit button
SubmitDisabled == loading \/ ~Truthy(accessToken)

\* {results.length > 0 && (...)} around the pagination buttons of part_000;
\* page.tsx renders none
PaginationRendered == variant = "part_000" /\ Len(results) > 0

\* the Previous Page button not disabled without a token
PrevDisabled_noToken == loading

\* disabled={loading || !prevPageToken}
PrevDisabled == loading \/ ~Truthy(prevPageToken)

\* disabled={loading || !nextPageToken}
NextDisabled == loading \/ ~Truthy(nextPageToken)

----------------------------------------------------------------------------
(* Search *)

NoClock == [day |-> 0, ms |-> 0]

\* the values Date.now() may return where handleSearch reads it
NowValues ==
    IF variant = "page" /\ params.publishedAfter \in {"week", "day"} THEN Clock ELSE {NoClock}

\* the guard left out
Unauthorized_never == FALSE

\* if (!accessToken) return alert("Please authorize first!")
Unauthorized == ~Truthy(accessToken)

\* gapi.client.youtube.search.list exists once the client is initialized; before
\* that, evaluating it throws inside the try block
SearchCallThrows == gapiClient # "ready"

\* an outstanding call: the request, and (for the properties) the clock value
\* read and the result set at the time of the call
Call(pageToken, now) ==
    [request |-> SearchRequest(pageToken, now),
     now     |-> now,
     prior   |-> [results |-> results, nextPageToken |-> nextPageToken,
                  prevPageToken |-> prevPageToken]]

\* handleSearch(e, pageToken) up to its await
handleSearch(op, pageToken, now) ==
    /\ IF Unauthorized
       THEN /\ last' = StepArg(op, TokenAlert, FALSE, pageToken)
            /\ UNCHANGED <<loading, inflight>>
       ELSE IF SearchCallThrows
       THEN \* setLoading(true); catch: console.error; finally: setLoading(false)
            /\ loading' = FALSE
            /\ last' = StepArg(op, NoAlert, TRUE, pageToken)
            /\ UNCHANGED inflight
       ELSE /\ Len(inflight) < MaxInflight
            /\ loading' = TRUE
            /\ inflight' = Append(inflight, Call(pageToken, now))
            /\ last' = StepArg(op, NoAlert, FALSE, pageToken)
    /\ UNCHANGED <<variant, mounted, libVars, authVars, results, nextPageToken,
                   prevPageToken, cursorQuery, params, urlVars>>

\* the submit button is clicked (or Enter pressed): the form validates its
\* required search box and fires onSubmit
SubmitClick ==
    /\ mounted /\ ~SubmitDisabled /\ params.q # ""
    /\ \E now \in NowValues : handleSearch("submit", NULL, now)

\* onClick={() => handleSearch(undefined, prevPageToken)}
PrevClick ==
    /\ mounted /\ PaginationRendered /\ ~PrevDisabled
    /\ \E now \in NowValues : handleSearch("prev", prevPageToken, now)

\* onClick={() => handleSearch(undefined, nextPageToken)}
NextClick ==
    /\ mounted /\ PaginationRendered /\ ~NextDisabled
    /\ \E now \in NowValues : handleSearch("next", nextPageToken, now)

\* a submit event reaches the form's onSubmit without the button (a script's
\* dispatchEvent, a test's fireEvent.submit): the button's disabled attribute
\* and the form's validation are not consulted
DispatchSubmit ==
    /\ mounted
    /\ \E now \in NowValues : handleSearch("submit", NULL, now)

\* the awaited call returns: the rest of the try block, then finally
SearchResolve(i, response) ==
    /\ mounted /\ i \in DOMAIN inflight
    /\ results' = storeItems(response.items)
    /\ nextPageToken' = OrNull(response.nextPageToken)
    /\ prevPageToken' = OrNull(response.prevPageToken)
    /\ loading' = FALSE
    /\ inflight' = RemoveAt(inflight, i)
    /\ cursorQuery' = QueryOf(inflight[i].request)
    /\ last' = StepArg("searchResolved", NoAlert, FALSE, response)
    /\ UNCHANGED <<variant, mounted, libVars, authVars, params, urlVars>>

\* a catch block that also empties the result set
SearchReject_clears(i) ==
    /\ mounted /\ i \in DOMAIN inflight
    /\ loading' = FALSE
    /\ results' = <<>>
    /\ nextPageToken' = NULL
    /\ prevPageToken' = NULL
    /\ inflight' = RemoveAt(inflight, i)
    /\ last' = Step("searchRejected", NoAlert, TRUE)
    /\ UNCHANGED <<variant, mounted, libVars, authVars, cursorQuery, params, urlVars>>

\* the awaited call rejects: catch logs, then finally
SearchReject(i) ==
    /\ mounted /\ i \in DOMAIN inflight
    /\ loading' = FALSE
    /\ inflight' = RemoveAt(inflight, i)
    /\ last' = Step("searchRejected", NoAlert, TRUE)
    /\ UNCHANGED <<variant, mounted, libVars, authVars, results, nextPageToken,
                   prevPageToken, cursorQuery, params, urlVars>>

----------------------------------------------------------------------------
(* The page, driven through its rendered controls *)

Next ==
    \/ GapiScriptLoad
    \/ GoogleScriptLoad
    \/ Tick
    \/ Unmount
    \/ GapiLoadCallback
    \/ GapiInitResolve
    \/ GapiInitReject
    \/ handleAuth
    \/ \E t \in AccessTokens : TokenCallback(t)
    \/ AuthDismissed
    \/ \E v \in Terms : SetQ(v)
    \/ \E key \in DOMAIN selectFields(variant) : \E v \in selectFields(variant)[key] :
           SetSelect(key, v)
    \/ SubmitClick
    \/ PrevClick
    \/ NextClick
    \/ \E i \in 1..MaxInflight : \E r \in Responses : SearchResolve(i, r)
    \/ \E i \in 1..MaxInflight : SearchReject(i)

Spec == Init /\ [][Next]_vars


\* the setInterval timer keeps firing while it is active
FairSpec == Spec /\ WF_vars(Tick)

(* The page with submit events that do not come from the submit button *)
HandlerNext ==
    \/ GapiScriptLoad
    \/ GoogleScriptLoad
    \/ Tick
    \/ GapiLoadCallback
    \/ GapiInitResolve
    \/ handleAuth
    \/ \E t \in AccessTokens : TokenCallback(t)
    \/ DispatchSubmit
    \/ PrevClick
    \/ NextClick
    \/ \E i \in 1..MaxInflight : \E r \in Responses : SearchResolve(i, r)
    \/ \E i \in 1..MaxInflight : SearchReject(i)

HandlerSpec == Init /\ [][HandlerNext]_vars

(* getUrl applied to every shape of result item *)
UrlInit == InitPage /\ item \in UrlItems

UrlSpec == UrlInit /\ [][RenderItem]_vars


----------------------------------------------------------------------------
(* Properties *)

SearchOps == {"submit", "prev", "next"}

ResultSet == <<results, nextPageToken, prevPageToken>>

\* C1: whenever handleSearch runs while accessToken is null, search.list is not
\* called, the 'Please authorize first!' alert is raised, and loading, results,
\* nextPageToken and prevPageToken are left unchanged.
C1_TokenGuard ==
    [][(last'.op \in SearchOps /\ accessToken = NULL)
          => /\ last'.alert = TokenAlert
             /\ ~last'.logged
             /\ inflight' = inflight
             /\ loading' = loading
             /\ ResultSet' = ResultSet]_vars

\* a submit has just been refused for want of a token, the libraries being ready
C1_Witness ==
    /\ last.op = "submit" /\ last.alert = TokenAlert
    /\ accessToken = NULL /\ gapiClient = "ready"
    /\ inflight = <<>> /\ ~loading

\* C2: after a search call returns, the stored result list is the returned item
\* list in the same order and both page tokens are the returned ones (null when
\* the response has none), in both variants.
C2_StoredAsReturned ==
    last.op = "searchResolved"
        => /\ results = last.arg.items
           /\ nextPageToken = (IF last.arg.nextPageToken = UNDEFINED
                               THEN NULL ELSE last.arg.nextPageToken)
           /\ prevPageToken = (IF last.arg.prevPageToken = UNDEFINED
                               THEN NULL ELSE last.arg.prevPageToken)

\* C3: when the search call fails (throws or rejects), results and both page
\* tokens keep the values they had before that search was started, the error is
\* logged and loading is reset to false; the result set only ever changes as a
\* whole, on a successful response.
C3_FailureKeepsResults ==
    [][/\ (last'.op = "searchRejected")
            => /\ last'.logged
               /\ loading' = FALSE
               /\ ResultSet' = ResultSet
               /\ \E i \in DOMAIN inflight :
                      /\ inflight' = RemoveAt(inflight, i)
                      /\ results' = inflight[i].prior.results
                      /\ nextPageToken' = inflight[i].prior.nextPageToken
                      /\ prevPageToken' = inflight[i].prior.prevPageToken
       /\ (last'.op \in SearchOps /\ accessToken # NULL /\ inflight' = inflight)
            => /\ last'.logged
               /\ loading' = FALSE
               /\ ResultSet' = ResultSet
       /\ (ResultSet' # ResultSet) => last'.op = "searchResolved"]_vars

\* a page fetch has just been rejected and the page shown before is still there
C3_Witness ==
    /\ last.op = "searchRejected" /\ last.logged
    /\ Len(results) > 0 /\ nextPageToken # NULL /\ prevPageToken # NULL
    /\ ~loading

\* C4: at most one search call is outstanding at any time, and loading is true
\* exactly while one is.
C4_OneInFlight ==
    /\ Len(inflight) <= 1
    /\ loading <=> (Len(inflight) = 1)

\* a page fetch is outstanding in part_000 with both cursors present
C4_Witness ==
    /\ Len(inflight) = 1 /\ loading
    /\ last.op = "next" /\ prevPageToken # NULL /\ nextPageToken # NULL

\* C5 as stated: a rendered pagination button is disabled when its token is
\* absent and enabled otherwise.
C5_DisabledIffNoToken ==
    PaginationRendered
        => /\ PrevDisabled <=> (prevPageToken = NULL)
           /\ NextDisabled <=> (nextPageToken = NULL)

\* C5 as amended: a rendered pagination button is disabled exactly when loading
\* is true or its token is absent; page.tsx renders none; and a pagination
\* request is only ever issued with a non-null page token.
C5_DisabledIffLoadingOrNoToken ==
    /\ PaginationRendered
         => /\ PrevDisabled <=> (loading \/ prevPageToken = NULL)
            /\ NextDisabled <=> (loading \/ nextPageToken = NULL)
    /\ variant = "page" => ~PaginationRendered
    /\ last.op \in {"prev", "next"}
         => /\ variant = "part_000"
            /\ last.arg \notin {NULL, UNDEFINED, ""}
            /\ Len(inflight) > 0 => inflight[Len(inflight)].request.pageToken = last.arg

\* Previous Page has just been clicked with its token while Next has none
C5_Witness ==
    /\ last.op = "prev" /\ last.arg = "P1"
    /\ Len(inflight) = 1 /\ inflight[1].request.pageToken = "P1"
    /\ nextPageToken = NULL /\ NextDisabled /\ PrevDisabled


\* C6: gapi initialization is started at most once and the identity token client
\* is created at most once; no timer tick runs after the tick in which both have
\* been started, nor after the view has been torn down; and once both globals are
\* there the timer is eventually cancelled.
C6_PollingStops ==
    /\ [](gapiLoadCalls <= 1 /\ initTokenClientCalls <= 1)
    /\ [][last'.op = "tick" => (mounted /\ ~(gapiInitStarted /\ gisInitStarted))]_vars
    /\ (gapiDefined /\ googleDefined) ~> (interval = "cleared")

\* the timer has cancelled itself in a mounted view, each library started once
C6_Witness ==
    /\ mounted /\ interval = "cleared" /\ last.op = "tick"
    /\ gapiLoadCalls = 1 /\ initTokenClientCalls = 1
    /\ gapiInitStarted /\ gisInitStarted

\* days from 1970-01-01 to the civil date y-m-d (m in 1..12), by eras of 400 years
DaysFromCivil(y, m, d) ==
    LET yy  == IF m <= 2 THEN y - 1 ELSE y
        era == yy \div 400
        yoe == yy - era * 400
        mp  == IF m > 2 THEN m - 3 ELSE m + 9
        doy == ((153 * mp + 2) \div 5) + d - 1
        doe == yoe * 365 + (yoe \div 4) - (yoe \div 100) + doy
    IN  era * 146097 + doe - 719468

\* the ISO-8601 text of the instant `back` whole days before the clock value now:
\* the one calendar date that lies that many days from the epoch, and now's time
\* of day
StampDaysBefore(now, back) ==
    LET day == now.day - back
        ymd == CHOOSE c \in (1960..2040) \X (1..12) \X (1..31) :
                   DaysFromCivil(c[1], c[2], c[3]) = day
                   /\ c[3] <= (IF c[2] = 2
                               THEN (IF DaysInYear(c[1]) = 366 THEN 29 ELSE 28)
                               ELSE IF c[2] \in {4, 6, 9, 11} THEN 30 ELSE 31)
    IN  IsoText(ymd[1], ymd[2], ymd[3],
                now.ms \div 3600000, (now.ms \div 60000) % 60,
                (now.ms \div 1000) % 60, now.ms % 1000)

\* C7: for a clock value now, the request's publishedAfter is the timestamp of
\* now - 7 days when the recency filter is 'week', of now - 1 day when it is
\* 'day', and the epoch when it is 'any'; the symbolic value of the form state is
\* never what is sent.
C7_PublishedAfter ==
    /\ (variant = "page" /\ last.op \in SearchOps /\ Len(inflight) = 1 /\ loading)
         => LET call == inflight[1]
            IN  /\ params.publishedAfter = "week"
                     => call.request.publishedAfter = StampDaysBefore(call.now, 7)
                /\ params.publishedAfter = "day"
                     => call.request.publishedAfter = StampDaysBefore(call.now, 1)
                /\ params.publishedAfter = "any"
                     => call.request.publishedAfter = "1970-01-01T00:00:00Z"
    /\ \A i \in DOMAIN inflight :
           "publishedAfter" \in DOMAIN inflight[i].request
               => inflight[i].request.publishedAfter \notin {"week", "day", "any", UNDEFINED}

\* a search for the last week is outstanding, started on 2024-03-01
C7_Witness ==
    /\ variant = "page" /\ last.op = "submit" /\ Len(inflight) = 1
    /\ params.publishedAfter = "week"
    /\ inflight[1].now = [day |-> 19783, ms |-> 0]
    /\ inflight[1].request.publishedAfter = "2024-02-23T00:00:00.000Z"

Present(x) == x # UNDEFINED /\ x # ""

\* C8: getUrl gives the watch URL when videoId is present, otherwise the playlist
\* URL when playlistId is present, otherwise the channel URL when channelId is
\* present, and "#" when none is; an empty id counts as absent.
C8_GetUrl ==
    href # Unrendered
        => LET id == item.id
           IN  /\ Present(id.videoId)
                    => href = "https://www.youtube.com/watch?v=" \o id.videoId
               /\ (~Present(id.videoId) /\ Present(id.playlistId))
                    => href = "https://www.youtube.com/playlist?list=" \o id.playlistId
               /\ (~Present(id.videoId) /\ ~Present(id.playlistId) /\ Present(id.channelId))
                    => href = "https://www.youtube.com/channel/" \o id.channelId
               /\ (~Present(id.videoId) /\ ~Present(id.playlistId) /\ ~Present(id.channelId))
                    => href = "#"

\* an item with an empty videoId, a playlistId and a channelId links to the playlist
C8_Witness ==
    /\ item = Item("", "abc", "xyz")
    /\ href = "https://www.youtube.com/playlist?list=abc"

\* C9: handleAuth without a token client raises the 'Google Auth library not
\* ready yet.' alert, requests no token and changes no state; with one it
\* requests a token; accessToken changes only when the identity callback
\* delivers a non-empty access_token, and never returns to null once set.
C9_Authorization ==
    [][/\ (last'.op = "handleAuth" /\ tokenClient = NULL)
            => /\ last'.alert = AuthAlert
               /\ UNCHANGED <<variant, mounted, libVars, authVars, searchVars, params>>
       /\ (last'.op = "handleAuth" /\ tokenClient # NULL)
            => /\ last'.alert = NoAlert
               /\ authPending' = authPending + 1
               /\ accessToken' = accessToken
       /\ (accessToken' # accessToken)
            => /\ last'.op = "tokenCallback"
               /\ last'.arg \notin {UNDEFINED, "", NULL}
               /\ accessToken' = last'.arg
       /\ (accessToken # NULL) => (accessToken' # NULL)]_vars

\* a token response without access_token has just left the stored token in place
C9_Witness ==
    /\ last.op = "tokenCallback" /\ last.arg = UNDEFINED
    /\ accessToken = "tokA"

\* C10: handleSearch gets past its guard to the search call only in states where
\* the API client initialization has completed (isGapiReady) and the identity
\* client has been initialized.
C10_SearchOnlyWhenReady ==
    (last.op \in SearchOps /\ last.alert = NoAlert)
        => (isGapiReady /\ tokenClient # NULL)


\* C11: every search request that carries a non-null page token carries the same
\* query parameters (term, limit, order, type, duration, resolution, region) as
\* the most recent successful search, whose response returned that token.
C11_CursorWithItsQuery ==
    \A i \in DOMAIN inflight :
        inflight[i].request.pageToken # NULL
            => QueryOf(inflight[i].request) = cursorQuery

====
